---- MODULE Spec2Model ----
(***************************************************************************)
(* APFC relay monitoring service (src/apfc_monitor.py).                    *)
(*                                                                         *)
(* Units.  Every reading returned by read_float_register is rounded to 3   *)
(* decimals, so power factor, current, voltage and set-points are kept as  *)
(* integers in thousandths (-0.8 is -800, 400 V is 400000).  kW is rounded *)
(* to 2 decimals by calculate_kw and is kept in hundredths.  The threshold *)
(* current is kept in millionths of an ampere.  Products and quotients     *)
(* that do not fit a machine integer are computed on base-100 digit        *)
(* sequences (least significant digit first).                              *)
(*                                                                         *)
(* The set-point moves in steps of exactly 10 thousandths; the binary      *)
(* rounding error a Python float collects in += 0.01 is below 10^-15 and   *)
(* every comparison of set-points in the source has a tolerance of 0.001   *)
(* or compares with a constant that is assigned, not computed.             *)
(*                                                                         *)
(* An optional value (Python None) is the empty sequence; a present value  *)
(* v is <<v>>.                                                             *)
(*                                                                         *)
(* reading_count (printed only) is left out, and of the log lines only     *)
(* which ones an iteration prints is kept.  The register codec is          *)
(* modelled bit for bit (Narrow, Words, unpack_f, Rounded) and is run on   *)
(* its own in SpecRoundTrip and on the measured channels in SpecCodec;     *)
(* the other specifications keep the set-point register as the value a     *)
(* read of it returns, which SpecRoundTrip shows to be the value written.  *)
(* debug_modbus.py contributes its four codec functions.                   *)
(***************************************************************************)
EXTENDS Integers, Sequences, FiniteSets, TLC

VARIABLES
    pc,                    \* position of run(): "start", "startup", "loop", "exited"
    connected,             \* plc_client.connect() succeeded and close() not yet called
    closed,                \* plc_client.close() has been called
    startup,               \* outcome of the startup set-point write: "pending", "ok", "failed"
    current_set_pf,        \* self.current_set_pf
    control_count,         \* self.control_count
    power_factor_history,  \* self.power_factor_history
    current_history,       \* self.current_history
    voltage_history,       \* self.voltage_history
    set_pf_history,        \* self.set_pf_history
    relay,                 \* the device: what its registers hold
    writes,                \* values handed to write_float_register in the last step
    last,                  \* what the last loop iteration did (locals of the iteration)
    pushed,                \* every present reading handed to update_history, per channel
    connect_result,        \* what plc_client.connect() did: "pending", "ok", "refused", "raises"
    interrupted,           \* a KeyboardInterrupt was raised
    exit_status,           \* the exit status of the process, once it has exited
    codec                  \* a float on its way through the write path and the read path

vars == <<pc, connected, closed, startup, current_set_pf, control_count,
          power_factor_history, current_history, voltage_history, set_pf_history,
          relay, writes, last, pushed, connect_result, interrupted, exit_status, codec>>

----------------------------------------------------------------------------
(* Program constants *)

\* a control interval one iteration short
CONTROL_INTERVAL_short == 6 - 1
CONTROL_INTERVAL == 6
MAX_HISTORY == 10
INITIAL_PF == -800
\* a floor one step too low
MIN_PF_wrong == 0 - 910
MIN_PF == -900
PF_STEP == 10
KW_THRESHOLD == 5600000
KW_MIN_THRESHOLD == 500000
SQRT3 == 17320508          \* math.sqrt(3) in units of 10^-7

None == <<>>
Some(v) == <<v>>
IsNone(x) == x = <<>>
Val(x) == x[1]
Abs(n) == IF n < 0 THEN -n ELSE n
Sign(n) == IF n < 0 THEN -1 ELSE 1

----------------------------------------------------------------------------
(* Arithmetic on naturals wider than a machine integer: base-100 digits,   *)
(* least significant first.                                                *)

Digits == Seq(0..99)

BigOfNat[n \in Nat] ==
    IF n = 0 THEN <<>> ELSE <<n % 100>> \o BigOfNat[n \div 100]

BigToNat[b \in Digits] ==
    IF b = <<>> THEN 0 ELSE Head(b) + 100 * BigToNat[Tail(b)]

\* b * n + c
BigMulCarry[b \in Digits, n \in Nat, c \in Nat] ==
    IF b = <<>> THEN BigOfNat[c]
    ELSE <<(Head(b) * n + c) % 100>>
             \o BigMulCarry[Tail(b), n, (Head(b) * n + c) \div 100]

BigMul(b, n) == BigMulCarry[b, n, 0]

\* Long division by n from the most significant digit b[i] down: r is the
\* remainder so far, q the digits of the quotient so far.
BigDivFrom[b \in Digits, i \in Nat, n \in Nat, r \in Nat, q \in Digits] ==
    IF i = 0 THEN q
    ELSE BigDivFrom[b, i - 1, n, (r * 100 + b[i]) % n,
                    <<(r * 100 + b[i]) \div n>> \o q]

\* floor(b / n)
BigDiv(b, n) == BigDivFrom[b, Len(b), n, 0, <<>>]

\* b * 100^k
BigShiftUp(b, k) == [i \in 1..k |-> 0] \o b

\* round(b / 100^k), ties to even, as Python's round(); Len(b) >= k
RoundHalfEven[b \in Digits, k \in Nat] ==
    LET q    == BigToNat[SubSeq(b, k + 1, Len(b))]
        up   == \/ b[k] > 50
                \/ b[k] = 50 /\ \E i \in 1..(k - 1) : b[i] # 0
                \/ b[k] = 50 /\ (\A i \in 1..(k - 1) : b[i] = 0) /\ q % 2 = 1
    IN  IF up THEN q + 1 ELSE q

BigRoundDown(b, k) == RoundHalfEven[b \o [i \in 1..k |-> 0], k]

\* the digits without leading (most significant) zeros
BigTrim[b \in Digits] ==
    IF b = <<>> THEN <<>>
    ELSE IF b[Len(b)] = 0 THEN BigTrim[SubSeq(b, 1, Len(b) - 1)]
    ELSE b

\* b + 1
BigInc[b \in Digits] ==
    IF b = <<>> THEN <<1>>
    ELSE IF Head(b) < 99 THEN <<Head(b) + 1>> \o Tail(b)
    ELSE <<0>> \o BigInc[Tail(b)]

BigIsOdd(b) == b # <<>> /\ Head(b) % 2 = 1

\* a < b, both without leading zeros
BigLess(a, b) ==
    \/ Len(a) < Len(b)
    \/ /\ Len(a) = Len(b)
       /\ \E i \in 1..Len(a) :
              /\ a[i] < b[i]
              /\ \A j \in (i + 1)..Len(a) : a[j] = b[j]

Pow2[k \in Nat] == IF k = 0 THEN 1 ELSE 2 * Pow2[k - 1]

\* b * 2^k
BigTimesPow2[b \in Digits, k \in Nat] ==
    IF k = 0 THEN b
    ELSE IF k >= 20 THEN BigTimesPow2[BigMul(b, Pow2[20]), k - 20]
    ELSE BigMul(b, Pow2[k])

\* floor(b / 2^k)
BigOverPow2[b \in Digits, k \in Nat] ==
    IF k = 0 \/ b = <<>> THEN b
    ELSE IF k >= 20 THEN BigOverPow2[BigTrim[BigDiv(b, Pow2[20])], k - 20]
    ELSE BigTrim[BigDiv(b, Pow2[k])]

\* b / 2^k rounded to the nearest integer, ties to even
BigRoundOverPow2(b, k) ==
    IF k = 0 THEN b
    ELSE LET q2    == BigOverPow2[b, k - 1]        \* one bit more than the quotient
             exact == BigTimesPow2[q2, k - 1] = b
             q     == BigOverPow2[q2, 1]
             up    == BigIsOdd(q2) /\ (~exact \/ BigIsOdd(q))
         IN  IF up THEN BigInc[q] ELSE q

\* number of bits of n: the least l with n < 2^l
BitLen[n \in Nat] == IF n = 0 THEN 0 ELSE 1 + BitLen[n \div 2]

\* n / 2^k rounded to the nearest integer, ties to even, for n below 2^31
RoundOverPow2(n, k) ==
    IF k = 0 THEN n
    ELSE IF k > 31 THEN 0
    ELSE IF k = 31 THEN (IF n > Pow2[30] THEN 1 ELSE 0)
    ELSE LET q    == n \div Pow2[k]
             r    == n % Pow2[k]
             half == Pow2[k - 1]
         IN  IF r > half \/ (r = half /\ q % 2 = 1) THEN q + 1 ELSE q

----------------------------------------------------------------------------
(* The register codec.  A Python float is a double; the write path packs   *)
(* it with struct.pack('>f'), which narrows it to the nearest single       *)
(* precision value (ties to even), and the read path unpacks the two       *)
(* registers into a single precision value and rounds it to 3 decimals.    *)
(*                                                                         *)
(* A float is kept exactly, as sign and m * 2^e, or, for a decimal literal *)
(* or a set-point, as the number of thousandths n whose nearest double it  *)
(* is.  That double is within 2^-53 (relative) of n / 1000, and n / 1000   *)
(* is either a single precision value or at least 2^-35 (relative) away    *)
(* from every midpoint of two of them, so narrowing the double and         *)
(* narrowing n / 1000 give the same single precision value.                *)
(*                                                                         *)
(* The result of round(float_value, 3) is kept as sign and magnitude in    *)
(* thousandths, the magnitude in base-100 digits (it reaches 10^13); 0.0   *)
(* and -0.0, equal in Python, are both kept as 0.                          *)

DecimalFloat(n) == [form |-> "decimal", neg |-> n < 0, m |-> Abs(n), e |-> 0]
BinaryFloat(neg, m, e) == [form |-> "binary", neg |-> neg, m |-> m, e |-> e]

\* a single precision value m * 2^e, normalised so that 2^23 <= m < 2^24, or
\* e = -149 and m < 2^23 (subnormal, zero)
Finite(neg, m, e) == [kind |-> "finite", neg |-> neg, m |-> m, e |-> e]
Infinite(neg) == [kind |-> "inf", neg |-> neg, m |-> 0, e |-> 0]
NotANumber == [kind |-> "nan", neg |-> FALSE, m |-> 0, e |-> 0]
TooLarge == [kind |-> "OverflowError", neg |-> FALSE, m |-> 0, e |-> 0]

\* m0 * 2^e0 with m0 <= 2^24 the rounded mantissa: a carry out of the
\* rounding is renormalised, a value of 2^128 or more does not fit
Renormalised(neg, m0, e0) ==
    LET m == IF m0 = Pow2[24] THEN Pow2[23] ELSE m0
        e == IF m0 = Pow2[24] THEN e0 + 1 ELSE e0
    IN  IF e > 104 THEN TooLarge ELSE Finite(neg, m, e)

\* the single precision value nearest to m * 2^e, m < 2^31
NarrowBinary(neg, m, e) ==
    LET l  == BitLen[m]
        m0 == IF l > 24 THEN RoundOverPow2(m, l - 24) ELSE m * Pow2[24 - l]
        e0 == e + l - 24
        s  == 0 - 149 - e
    IN  IF m = 0 THEN Finite(neg, 0, 0 - 149)
        ELSE IF e0 < 0 - 149
        THEN Finite(neg, IF s >= 0 THEN RoundOverPow2(m, s) ELSE m * Pow2[0 - s], 0 - 149)
        ELSE Renormalised(neg, m0, e0)

\* the single precision value nearest to n / 1000, 0 < n < 2^31
NarrowDecimal(neg, n) ==
    LET l     == BitLen[n]
        \* 2^p <= n / 1000 < 2^(p + 1)
        p     == IF l >= 10
                 THEN (IF n >= 1000 * Pow2[l - 10] THEN l - 10 ELSE l - 11)
                 ELSE (IF n * Pow2[10 - l] >= 1000 THEN l - 10 ELSE l - 11)
        s     == 23 - p
        n2    == BigTimesPow2[BigOfNat[n], s + 1]
        \* floor(n * 2^(s + 1) / 1000): the mantissa and one more bit
        q2    == BigToNat[BigDiv(n2, 1000)]
        exact == BigMul(BigOfNat[q2], 1000) = n2
        q     == q2 \div 2
        up    == q2 % 2 = 1 /\ (~exact \/ q % 2 = 1)
    IN  Renormalised(neg, IF up THEN q + 1 ELSE q, 0 - s)

\* float_value as struct.pack('>f', float_value) takes it
Narrow(x) ==
    IF x.m = 0 THEN Finite(x.neg, 0, 0 - 149)
    ELSE IF x.form = "decimal" THEN NarrowDecimal(x.neg, x.m)
    ELSE NarrowBinary(x.neg, x.m, x.e)

\* the two halves of the big-endian bytes of a single precision value:
\* sign bit, 8 bits of exponent (all ones for an infinity), 23 bits of fraction
Words(f) ==
    LET exponent == IF f.kind = "inf" THEN 255
                    ELSE IF f.m < Pow2[23] THEN 0 ELSE f.e + 150
        fraction == IF f.m < Pow2[23] THEN f.m ELSE f.m - Pow2[23]
    IN  [high_word |-> (IF f.neg THEN Pow2[15] ELSE 0) + exponent * Pow2[7]
                           + fraction \div Pow2[16],
         low_word  |-> fraction % Pow2[16]]

\* struct.unpack('>f', struct.pack('>HH', high_word, low_word))[0]
unpack_f(high_word, low_word) ==
    LET neg      == high_word \div Pow2[15] = 1
        exponent == (high_word \div Pow2[7]) % Pow2[8]
        fraction == (high_word % Pow2[7]) * Pow2[16] + low_word
    IN  IF exponent = 255
        THEN (IF fraction = 0 THEN Infinite(neg) ELSE NotANumber)
        ELSE IF exponent = 0 THEN Finite(neg, fraction, 0 - 149)
        ELSE Finite(neg, Pow2[23] + fraction, exponent - 150)

\* 10^10
Big1e10 == <<0, 0, 0, 0, 0, 1>>

\* "math.isfinite(float_value) and abs(float_value) < 1e10".  With e <= 0
\* the magnitude is at most m < 2^31, with e > 34 at least 2^35.
Plausible(f) ==
    /\ f.kind = "finite"
    /\ \/ f.m = 0
       \/ f.e <= 0
       \/ /\ f.e <= 34
          /\ BigLess(BigTimesPow2[BigOfNat[f.m], f.e], Big1e10)

\* round(m * 2^e, 3), in thousandths
Rounded(neg, m, e) ==
    LET mag == IF e >= 0
               THEN BigMul(BigTimesPow2[BigOfNat[m], e], 1000)
               ELSE BigRoundOverPow2(BigMul(BigOfNat[m], 1000), 0 - e)
    IN  [neg |-> neg /\ mag # <<>>, mag |-> mag]

\* a decimal of 3 places as a number of thousandths, and back
Thousandths(d) == IF d.neg THEN 0 - BigToNat[d.mag] ELSE BigToNat[d.mag]
OfThousandths(n) == [neg |-> n < 0, mag |-> BigOfNat[Abs(n)]]

\* round(x, 3) of a float x
round3(x) ==
    IF x.form = "decimal" THEN OfThousandths(IF x.neg THEN 0 - x.m ELSE x.m)
    ELSE Rounded(x.neg, x.m, x.e)

\* faulty variant: the registers taken most significant word first
float_of_registers_abcd(registers) == unpack_f(registers[1], registers[2])

\* read_float_register: "raw_bytes = struct.pack('>HH', result.registers[1],
\* result.registers[0])", as the two halves of the four bytes (registers[0]
\* of the source is registers[1] here)
raw_bytes(registers) == <<registers[2], registers[1]>>

\* "float_value = struct.unpack('>f', raw_bytes)[0]"
float_of_registers(registers) ==
    unpack_f(raw_bytes(registers)[1], raw_bytes(registers)[2])

\* faulty variant: an error result is decoded like a good one
read_float_register_unchecked(registers, t) ==
    IF t = "exception" THEN None
    ELSE LET float_value == float_of_registers(registers)
         IN  IF Plausible(float_value)
             THEN Some(Rounded(float_value.neg, float_value.m, float_value.e))
             ELSE None

\* read_float_register: t is what read_holding_registers did, "ok", "error"
\* (no result or an error result) or "exception" (raised, or the result has
\* fewer than two registers); registers is what the device holds
read_float_register(registers, t) ==
    IF t # "ok" THEN None
    ELSE LET float_value == float_of_registers(registers)
         IN  IF Plausible(float_value)
             THEN Some(Rounded(float_value.neg, float_value.m, float_value.e))
             ELSE None

\* write_float_register: "payload = [low_word, high_word]".  struct.pack
\* raises OverflowError for a float_value that single precision cannot hold
\* (caught by the except clause: nothing is written).
payload(float_value) ==
    LET f == Narrow(float_value)
    IN  IF f.kind = "OverflowError" THEN None
        ELSE Some(<<Words(f).low_word, Words(f).high_word>>)

\* the set-points the service can write, -0.9 to 1.0, in thousandths
SetPointDecimals == {MIN_PF + PF_STEP * i : i \in 0 .. 190}

\* debug_modbus.py
decode_float_abcd(registers) == unpack_f(registers[1], registers[2])
decode_float_cdab(registers) == unpack_f(registers[2], registers[1])
encode_float_abcd(float_value) ==
    <<Words(Narrow(float_value)).high_word, Words(Narrow(float_value)).low_word>>
encode_float_cdab(float_value) ==
    <<Words(Narrow(float_value)).low_word, Words(Narrow(float_value)).high_word>>

----------------------------------------------------------------------------
(* deque(maxlen=MAX_HISTORY).append *)

\* faulty variant: a full window refuses the new value instead of evicting the oldest
Append10_keep_oldest(h, v) ==
    IF Len(h) >= MAX_HISTORY THEN h ELSE h \o <<v>>

Append10(h, v) ==
    IF Len(h) >= MAX_HISTORY THEN Tail(h) \o <<v>> ELSE h \o <<v>>

\* update_history: a present reading is appended, an absent one is skipped
PushOpt(h, x) == IF IsNone(x) THEN h ELSE Append10(h, Val(x))

----------------------------------------------------------------------------
(* calculate_kw: round(sqrt(3) * V * I * pf, 2), in hundredths.            *)
(* V, I, pf are thousandths and SQRT3 is in 10^-7, so the product is in    *)
(* 10^-16 and hundredths are the product over 10^14 = 100^7.               *)

calculate_kw(voltage, current, power_factor) ==
    IF IsNone(voltage) \/ IsNone(current) \/ IsNone(power_factor) THEN None
    ELSE LET v == Val(voltage)
             i == Val(current)
             p == Val(power_factor)
             m == BigMul(BigMul(BigMul(BigOfNat[Abs(v)], Abs(i)), Abs(p)), SQRT3)
         IN  Some(Sign(v) * Sign(i) * Sign(p) * BigRoundDown(m, 7))

\* kw / voltage / sqrt3 in millionths: kw is hundredths, voltage thousandths,
\* SQRT3 10^-7, so the quotient in millionths is kw * 10^14 / (voltage * SQRT3).
\* Each division truncates.  voltage # 0.
KwOverVoltageOverSqrt3(kw, voltage) ==
    LET q == BigToNat[BigDiv(BigDiv(BigShiftUp(BigOfNat[Abs(kw)], 7), Abs(voltage)), SQRT3)]
    IN  Sign(kw) * Sign(voltage) * q

\* threshold_current of control_power_factor, in millionths of an ampere
ThresholdCase1(kw, voltage) ==
    KwOverVoltageOverSqrt3(kw, voltage) + 28000000 + (voltage - 404000) * 2 * 1000

ThresholdCase2(kw, voltage) ==
    KwOverVoltageOverSqrt3(kw, voltage) + (voltage - 404000) * 2 * 1000

\* The comparison of current with threshold_current.  The source compares two
\* doubles; the digits below a millionth are not modelled, so when the two
\* agree to the millionth the outcome of the comparison is any of the three
\* (rnd), otherwise it is decided by the modelled digits.
Compare(current, threshold, rnd) ==
    LET c == current * 1000
    IN  IF c < threshold THEN "lt"
        ELSE IF c > threshold THEN "gt"
        ELSE rnd

----------------------------------------------------------------------------
(* The write path *)

\* write_float_register: True when the transport confirms the write, False on
\* an error result and on an exception (both caught here).  float_value is a
\* set-point in thousandths; struct.pack raises for no set-point (payload, and
\* SpecRoundTrip over SetPointDecimals), so the outcome is the transport's.
write_float_register(float_value, w) == w = "ok"

\* faulty variant: current_set_pf is assigned before the write is confirmed
set_power_factor_unconfirmed(set_pf, pf_value, w) ==
    LET v == IF pf_value < MIN_PF THEN MIN_PF ELSE pf_value
        success == write_float_register(v, w)
    IN  [set_pf |-> v, writes |-> <<[value |-> v, ok |-> success]>>, ret |-> success]

\* set_power_factor(pf_value) with self.current_set_pf = set_pf
set_power_factor(set_pf, pf_value, w) ==
    LET v == IF pf_value < MIN_PF THEN MIN_PF ELSE pf_value
    IN  IF v < MIN_PF
        THEN [set_pf |-> set_pf, writes |-> <<>>, ret |-> FALSE]
        ELSE LET success == write_float_register(v, w)
             IN  [set_pf |-> IF success THEN v ELSE set_pf,
                  writes |-> <<[value |-> v, ok |-> success]>>,
                  ret    |-> success]

----------------------------------------------------------------------------
(* control_power_factor(voltage, current, power_factor) with               *)
(* self.current_set_pf = set_pf.  The result carries the new               *)
(* current_set_pf, the writes issued, the return value and the locals      *)
(* (branch taken, kw, threshold_current, outcome of the comparison).       *)

Unwritten(set_pf) == [set_pf |-> set_pf, writes |-> <<>>, ret |-> FALSE]

Outcome(r, ret, branch, kw, threshold, cmp) ==
    [set_pf |-> r.set_pf, writes |-> r.writes, ret |-> ret, branch |-> branch,
     kw |-> kw, threshold |-> threshold, cmp |-> cmp]

\* faulty variant: the magnitude of kw is compared
IsLowPower_magnitude(kw) == Abs(kw) < KW_MIN_THRESHOLD

\* "if kw < KW_MIN_THRESHOLD"
IsLowPower(kw) == kw < KW_MIN_THRESHOLD

\* faulty variant: the reset is written whether or not the set-point differs
LowPowerReset_unconditional(set_pf, w) == set_power_factor(set_pf, INITIAL_PF, w)

\* the body of the low-power branch
LowPowerReset(set_pf, w) ==
    IF Abs(set_pf - INITIAL_PF) > 1
    THEN set_power_factor(set_pf, INITIAL_PF, w)
    ELSE Unwritten(set_pf)

\* faulty variant: the boundary itself still takes the +28 formula
IsCase1_inclusive(kw) == kw <= KW_THRESHOLD

\* "if kw < KW_THRESHOLD"
IsCase1(kw) == kw < KW_THRESHOLD

\* faulty variant: "elif current > threshold" written as "else"
Adjust_without_equal(set_pf, cmp, w) ==
    LET stepped == IF cmp = "lt" THEN set_pf + PF_STEP ELSE set_pf - PF_STEP
        new_pf  == IF stepped < MIN_PF THEN MIN_PF ELSE stepped
    IN  IF Abs(new_pf - set_pf) > 1
        THEN set_power_factor(set_pf, new_pf, w)
        ELSE Unwritten(set_pf)

\* faulty variant: the two directions exchanged
Adjust_reversed(set_pf, cmp, w) ==
    IF cmp = "eq" THEN Unwritten(set_pf)
    ELSE LET stepped == IF cmp = "gt" THEN set_pf + PF_STEP ELSE set_pf - PF_STEP
             new_pf  == IF stepped < MIN_PF THEN MIN_PF ELSE stepped
         IN  IF Abs(new_pf - set_pf) > 1
             THEN set_power_factor(set_pf, new_pf, w)
             ELSE Unwritten(set_pf)

\* faulty variant: "only update if PF changed" looks at the proposal before
\* the clamp
Adjust_unclamped_change(set_pf, cmp, w) ==
    IF cmp = "eq" THEN Unwritten(set_pf)
    ELSE LET stepped == IF cmp = "lt" THEN set_pf + PF_STEP ELSE set_pf - PF_STEP
             new_pf  == IF stepped < MIN_PF THEN MIN_PF ELSE stepped
         IN  IF Abs(stepped - set_pf) > 1
             THEN set_power_factor(set_pf, new_pf, w)
             ELSE Unwritten(set_pf)

\* From "new_pf = self.current_set_pf" to the end: the step, the clamp and the
\* write; cmp is the outcome of comparing current with threshold_current.
Adjust(set_pf, cmp, w) ==
    IF cmp = "eq" THEN Unwritten(set_pf)
    ELSE LET stepped == IF cmp = "lt" THEN set_pf + PF_STEP ELSE set_pf - PF_STEP
             new_pf  == IF stepped < MIN_PF THEN MIN_PF ELSE stepped
         IN  IF Abs(new_pf - set_pf) > 1
             THEN set_power_factor(set_pf, new_pf, w)
             ELSE Unwritten(set_pf)

control_power_factor(set_pf, voltage, current, power_factor, w, rnd) ==
    IF IsNone(voltage) \/ IsNone(current) \/ IsNone(power_factor)
    THEN Outcome(Unwritten(set_pf), FALSE, "absent", None, None, "none")
    ELSE IF Val(voltage) = 0 \/ Abs(Val(voltage)) < 100
    THEN Outcome(Unwritten(set_pf), FALSE, "voltage", None, None, "none")
    ELSE
    LET kw == Val(calculate_kw(voltage, current, power_factor))
    IN  IF IsLowPower(kw)
        THEN Outcome(LowPowerReset(set_pf, w), FALSE, "low", Some(kw), None, "none")
        ELSE
        LET threshold == IF IsCase1(kw) THEN ThresholdCase1(kw, Val(voltage))
                                        ELSE ThresholdCase2(kw, Val(voltage))
            branch    == IF IsCase1(kw) THEN "case1" ELSE "case2"
            cmp       == Compare(Val(current), threshold, rnd)
            r         == Adjust(set_pf, cmp, w)
        IN  Outcome(r, r.ret, branch, Some(kw), Some(threshold), cmp)

\* faulty variant: the 0.1 V bound of control_power_factor instead of 100 V
ControlGuard_minimal(voltage, current, power_factor) ==
    /\ ~IsNone(voltage) /\ ~IsNone(current) /\ ~IsNone(power_factor)
    /\ Val(voltage) # 0
    /\ Abs(Val(voltage)) >= 100

\* the guard of run() in front of control_power_factor
ControlGuard(voltage, current, power_factor) ==
    /\ ~IsNone(voltage) /\ ~IsNone(current) /\ ~IsNone(power_factor)
    /\ Val(voltage) # 0
    /\ Abs(Val(voltage)) >= 100000

----------------------------------------------------------------------------
(* The device.  A load is what the relay measures: power factor, current   *)
(* and voltage, each present or (sensor fault, bad decode) absent, and     *)
(* whether its set-point register can be read.                             *)

Load(pf, current, voltage, sp) ==
    [pf |-> pf, current |-> current, voltage |-> voltage, sp |-> sp]

\* 400 V, 25 A, pf -0.85: kw = -14722.43
LoadNegativePf == Load(Some(-850), Some(25000), Some(400000), TRUE)
\* 400 V, 25 A, pf 0.85: kw = 14722.43, threshold 41.25 A > 25 A
LoadBelowThreshold == Load(Some(850), Some(25000), Some(400000), TRUE)
\* 380 V, 30 A, pf 0.9: kw = 17770.84, threshold 7 A < 30 A
LoadAboveThreshold == Load(Some(900), Some(30000), Some(380000), TRUE)
\* 400 V, 50 A, pf 0.6: kw = 20784.61, threshold 50.000000 A
LoadAtThreshold == Load(Some(600), Some(50000), Some(400000), TRUE)
\* 410 V, 90 A, pf 0.95: kw = 60717.04
LoadHighPower == Load(Some(950), Some(90000), Some(410000), TRUE)
\* kw = 4999.99, 5000.00, 55999.99, 56000.00
LoadKw4999 == Load(Some(1000), Some(12000), Some(240562), TRUE)
LoadKw5000 == Load(Some(1000), Some(10000), Some(288675), TRUE)
LoadKw55999 == Load(Some(1000), Some(77000), Some(419891), TRUE)
LoadKw56000 == Load(Some(1000), Some(76000), Some(425416), TRUE)
\* voltage 99.999 V, 0 V, absent; current absent; power factor absent
LoadVoltageLow == Load(Some(850), Some(25000), Some(99999), TRUE)
LoadVoltageZero == Load(Some(850), Some(25000), Some(0), TRUE)
LoadVoltageAbsent == Load(Some(850), Some(25000), None, FALSE)
LoadCurrentAbsent == Load(Some(850), None, Some(400000), TRUE)
LoadPfAbsent == Load(None, Some(25000), Some(400000), TRUE)
\* 100 V exactly: the guard lets it through
LoadVoltage100 == Load(Some(850), Some(400000), Some(100000), TRUE)

\* A printed line.  Only the lines that tell what an iteration did are kept:
\* the status line ("Reading #n - PF: ... | kW: ..."), the read-failed
\* warning, and the error lines of the two exception handlers.  The status
\* line shows the four readings (or N/A) and the kw that calculate_kw derives
\* from three of them; it is kept as the readings it shows.
Line(line, power_factor, current, voltage, set_pf) ==
    [line |-> line, power_factor |-> power_factor, current |-> current,
     voltage |-> voltage, set_pf |-> set_pf]

StatusLine(power_factor, current, voltage, set_pf) ==
    Line("status", power_factor, current, voltage, set_pf)

\* kw_str of a status line
KwShown(l) == calculate_kw(l.voltage, l.current, l.power_factor)

ReadFailedWarning == Line("read_failed", None, None, None, None)
ControlErrorLine == Line("control_error", None, None, None, None)
LoopErrorLine == Line("loop_error", None, None, None, None)

NoLast ==
    [kind |-> "none", before |-> INITIAL_PF,
     power_factor |-> None, current |-> None, voltage |-> None, set_pf |-> None,
     branch |-> "none", kw |-> None, threshold |-> None, cmp |-> "none",
     reads |-> 0, printed |-> <<>>, slept |-> 0, exc |-> "none"]

NoPushed == [pf |-> <<>>, current |-> <<>>, voltage |-> <<>>, set_pf |-> <<>>]

NoCodec == [at |-> "unused"]

\* the set-point register of the device before the service writes it
FactorySetPf == {950}

\* the service after APFCMonitorService() is constructed
InitService ==
    /\ pc = "start"
    /\ connected = FALSE
    /\ closed = FALSE
    /\ startup = "pending"
    /\ current_set_pf = INITIAL_PF
    /\ control_count = 0
    /\ power_factor_history = <<>>
    /\ current_history = <<>>
    /\ voltage_history = <<>>
    /\ set_pf_history = <<>>
    /\ writes = <<>>
    /\ last = NoLast
    /\ pushed = NoPushed
    /\ connect_result = "pending"
    /\ interrupted = FALSE
    /\ exit_status = None

InitOver(loads) ==
    /\ InitService
    /\ relay \in [load : loads, reg : FactorySetPf]
    /\ codec = NoCodec

\* What a read of the set-point register returns after the writes of a step:
\* a confirmed write puts payload(value) in the two registers and the next
\* read_float_register decodes them, which for a set-point gives the value
\* written (RoundTripOfSinglePrecision under SpecRoundTrip).
RegAfter(reg, ws) ==
    IF ws # <<>> /\ ws[Len(ws)].ok THEN ws[Len(ws)].value ELSE reg

----------------------------------------------------------------------------
(* run() and main() *)

\* faulty variant: run() goes on to the startup write whatever connect() did
Connect_ignoring_failure(result) ==
    /\ pc = "start"
    /\ connect_result' = result
    /\ pc' = "startup"
    /\ connected' = (result = "ok")
    /\ writes' = <<>>
    /\ last' = NoLast
    /\ UNCHANGED <<closed, startup, current_set_pf, control_count,
                   power_factor_history, current_history, voltage_history,
                   set_pf_history, relay, pushed, interrupted, exit_status, codec>>

\* self.plc_client.connect(): True, False, or an exception.  On the last two
\* run() returns, main() returns and the interpreter exits with status 0.
Connect(result) ==
    /\ pc = "start"
    /\ connect_result' = result
    /\ IF result = "ok"
       THEN pc' = "startup" /\ connected' = TRUE /\ exit_status' = exit_status
       ELSE pc' = "exited" /\ connected' = FALSE /\ exit_status' = Some(0)
    /\ writes' = <<>>
    /\ last' = NoLast
    /\ UNCHANGED <<closed, startup, current_set_pf, control_count,
                   power_factor_history, current_history, voltage_history,
                   set_pf_history, relay, pushed, interrupted, codec>>

\* "Initialize PF to -0.8 at startup"
StartupWrite(w) ==
    /\ pc = "startup"
    /\ LET r == set_power_factor(current_set_pf, INITIAL_PF, w)
       IN  /\ current_set_pf' = r.set_pf
           /\ writes' = r.writes
           /\ startup' = IF r.ret THEN "ok" ELSE "failed"
           /\ relay' = [relay EXCEPT !.reg = RegAfter(relay.reg, r.writes)]
    /\ pc' = "loop"
    /\ last' = NoLast
    /\ UNCHANGED <<connected, closed, control_count,
                   power_factor_history, current_history, voltage_history,
                   set_pf_history, pushed, connect_result, interrupted,
                   exit_status, codec>>

\* faulty variant: a set-point that could be read counts as a sample
SampleTaken_any_of_four(power_factor, current, voltage, set_pf) ==
    ~IsNone(power_factor) \/ ~IsNone(current) \/ ~IsNone(voltage) \/ ~IsNone(set_pf)

\* "if power_factor is not None or current is not None or voltage is not None",
\* with the four readings of the iteration at hand
SampleTaken(power_factor, current, voltage, set_pf) ==
    ~IsNone(power_factor) \/ ~IsNone(current) \/ ~IsNone(voltage)

\* faulty variant: ">" for ">="
CountReached_late(count) == count > CONTROL_INTERVAL

\* "if self.control_count >= CONTROL_INTERVAL"
CountReached(count) == count >= CONTROL_INTERVAL

\* faulty variant: the handler goes on to the next iteration at once
HandlerDelay_missing(exc) == 0

\* calls of time.sleep(READ_INTERVAL) in the handler of the loop body's try:
\* one when an exception reached it
HandlerDelay(exc) == IF exc = "status" THEN 1 ELSE 0

\* calls of time.sleep(READ_INTERVAL) at the end of the loop body: one, unless
\* an exception left the body before
BodyDelay(exc) == IF exc = "status" THEN 0 ELSE 1

\* faulty variant: the status line is printed only by an iteration that ran
\* the control step
StatusLines_on_decision_only(decision, power_factor, current, voltage, set_pf, exc) ==
    IF exc = "status" THEN <<LoopErrorLine>>
    ELSE IF decision THEN <<StatusLine(power_factor, current, voltage, set_pf)>>
    ELSE <<>>

\* What the rest of a counted iteration prints after the control step: the
\* status line, or the error line of the handler when formatting or printing
\* the status line raised.  decision: the control step ran in this iteration.
StatusLines(decision, power_factor, current, voltage, set_pf, exc) ==
    IF exc = "status" THEN <<LoopErrorLine>>
    ELSE <<StatusLine(power_factor, current, voltage, set_pf)>>

\* One iteration of the while loop: the four reads, update_history, the
\* control step every CONTROL_INTERVAL-th counted iteration, the status line
\* and the sleep.  down: the three measurement reads fail (transport error).
\* w: the outcome of a write, if one is issued.  rnd: see Compare.  log:
\* whether the readings are also kept in pushed.  exc: an exception raised in
\* the iteration: "decision", inside control_power_factor before it writes
\* (caught by the handlers around the call); "status", while the status line
\* or the read-failed warning is formatted and printed (caught by the handler
\* of the loop body); "none".
Tick(down, w, rnd, log, exc) ==
    /\ pc = "loop"
    /\ LET power_factor == IF down THEN None ELSE relay.load.pf
           current      == IF down THEN None ELSE relay.load.current
           voltage      == IF down THEN None ELSE relay.load.voltage
           set_pf       == IF relay.load.sp THEN Some(relay.reg) ELSE None
           seen         == [NoLast EXCEPT !.before = current_set_pf,
                                          !.power_factor = power_factor,
                                          !.current = current,
                                          !.voltage = voltage,
                                          !.set_pf = set_pf,
                                          !.reads = 4,
                                          !.slept = BodyDelay(exc) + HandlerDelay(exc),
                                          !.exc = exc]
           status       == StatusLines(CountReached(control_count + 1)
                                           /\ ControlGuard(voltage, current, power_factor),
                                       power_factor, current, voltage, set_pf, exc)
       IN  IF ~SampleTaken(power_factor, current, voltage, set_pf)
           THEN /\ last' = [seen EXCEPT !.kind = "failed",
                                        !.printed = IF exc = "status"
                                                    THEN <<LoopErrorLine>>
                                                    ELSE <<ReadFailedWarning>>]
                /\ writes' = <<>>
                /\ UNCHANGED <<current_set_pf, control_count,
                               power_factor_history, current_history,
                               voltage_history, set_pf_history, relay, pushed>>
           ELSE /\ power_factor_history' = PushOpt(power_factor_history, power_factor)
                /\ current_history' = PushOpt(current_history, current)
                /\ voltage_history' = PushOpt(voltage_history, voltage)
                /\ set_pf_history' = PushOpt(set_pf_history, set_pf)
                /\ pushed' = IF log
                             THEN [pf      |-> pushed.pf \o power_factor,
                                   current |-> pushed.current \o current,
                                   voltage |-> pushed.voltage \o voltage,
                                   set_pf  |-> pushed.set_pf \o set_pf]
                             ELSE pushed
                /\ IF CountReached(control_count + 1)
                   THEN /\ control_count' = 0
                        /\ IF ControlGuard(voltage, current, power_factor)
                           THEN IF exc = "decision"
                                THEN /\ last' = [seen EXCEPT
                                                    !.kind = "aborted",
                                                    !.printed = <<ControlErrorLine>> \o status]
                                     /\ writes' = <<>>
                                     /\ UNCHANGED <<current_set_pf, relay>>
                                ELSE
                                LET r == control_power_factor(current_set_pf, voltage,
                                                              current, power_factor, w, rnd)
                                IN  /\ current_set_pf' = r.set_pf
                                    /\ writes' = r.writes
                                    /\ relay' = [relay EXCEPT !.reg = RegAfter(relay.reg, r.writes)]
                                    /\ last' = [seen EXCEPT !.kind = "decided",
                                                            !.branch = r.branch,
                                                            !.kw = r.kw,
                                                            !.threshold = r.threshold,
                                                            !.cmp = r.cmp,
                                                            !.printed = status]
                           ELSE /\ last' = [seen EXCEPT !.kind = "guarded",
                                                        !.printed = status]
                                /\ writes' = <<>>
                                /\ UNCHANGED <<current_set_pf, relay>>
                   ELSE /\ control_count' = control_count + 1
                        /\ last' = [seen EXCEPT !.kind = "sample", !.printed = status]
                        /\ writes' = <<>>
                        /\ UNCHANGED <<current_set_pf, relay>>
    /\ UNCHANGED <<pc, connected, closed, startup, connect_result, interrupted,
                   exit_status, codec>>

\* KeyboardInterrupt.  Inside the loop it is caught by the outer try, the
\* finally clause closes the client, run() and main() return and the process
\* exits with status 0; before the loop (during connect or the startup write)
\* nothing catches it: run() is left without close() and the interpreter
\* exits with a non-zero status (1 stands for it).
Interrupt ==
    /\ pc \in {"start", "startup", "loop"}
    /\ IF pc = "loop"
       THEN closed' = TRUE /\ connected' = FALSE /\ exit_status' = Some(0)
       ELSE exit_status' = Some(1) /\ UNCHANGED <<closed, connected>>
    /\ pc' = "exited"
    /\ interrupted' = TRUE
    /\ writes' = <<>>
    /\ last' = NoLast
    /\ UNCHANGED <<startup, current_set_pf, control_count,
                   power_factor_history, current_history, voltage_history,
                   set_pf_history, relay, pushed, connect_result, codec>>

\* The measured load changes.
LoadChange(l) ==
    /\ pc = "loop"
    /\ l # relay.load
    /\ relay' = [relay EXCEPT !.load = l]
    /\ UNCHANGED <<pc, connected, closed, startup, current_set_pf, control_count,
                   power_factor_history, current_history, voltage_history,
                   set_pf_history, writes, last, pushed, connect_result,
                   interrupted, exit_status, codec>>

ConnectResults == {"ok", "refused", "raises"}
WriteResults == {"ok", "error", "exception"}
Roundings == {"lt", "eq", "gt"}
Exceptions == {"none", "decision", "status"}

----------------------------------------------------------------------------
(* Spec: the control loop over loads that change between control periods.  *)
(* The set-point is explored from the floor up to MaxRise steps above the  *)
(* initial set-point.                                                      *)

MaxRise == 2

ControlLoads ==
    {LoadNegativePf, LoadBelowThreshold, LoadAboveThreshold, LoadAtThreshold,
     LoadVoltageAbsent}

Init == InitOver(ControlLoads)

DoConnect == \E result \in ConnectResults : Connect(result)

DoStartupWrite == \E w \in WriteResults : StartupWrite(w)

\* w and rnd are read by a control step only: one value stands for all of
\* them in an iteration that has none.
Inputs(down, w, rnd) ==
    (down \/ control_count + 1 < CONTROL_INTERVAL) => (w = "ok" /\ rnd = "eq")

\* An exception inside control_power_factor needs an iteration that may call
\* it, and such an iteration has no write and no comparison.
Raised(down, w, rnd, exc) ==
    exc = "decision" =>
        /\ ~down /\ control_count + 1 >= CONTROL_INTERVAL
        /\ w = "ok" /\ rnd = "eq"

DoTick ==
    /\ current_set_pf < INITIAL_PF + MaxRise * PF_STEP
    /\ \E down \in BOOLEAN, w \in WriteResults, rnd \in Roundings :
          Inputs(down, w, rnd) /\ Tick(down, w, rnd, FALSE, "none")

DoLoadChange ==
    /\ control_count = 0
    /\ \E l \in ControlLoads : LoadChange(l)

Next == DoConnect \/ DoStartupWrite \/ DoTick \/ DoLoadChange \/ Interrupt

Spec == Init /\ [][Next]_vars

----------------------------------------------------------------------------
(* Properties of the control loop, checked under Spec *)

Written(i) == writes[i]
Decided == last.kind = "decided"

\* C1 Floor invariant: the commanded set-point is never below -0.9, and no
\* value below -0.9 is ever handed to the transport write.
FloorInvariant ==
    /\ current_set_pf >= -900
    /\ \A i \in 1..Len(writes) : Written(i).value >= -900

\* a decrease was decided with the set-point already at the floor
FloorReached ==
    /\ Decided /\ last.cmp = "gt"
    /\ last.before = -900
    /\ current_set_pf = -900

\* C2 The commanded set-point changes only in a step with a confirmed write
\* and then equals the value written; a step whose writes all fail, and a
\* step that only reads the set-point back, leave it unchanged.
SetPointFollowsConfirmedWrite ==
    [][/\ \A i \in 1..Len(writes') :
              writes'[i].ok => current_set_pf' = writes'[i].value
       /\ (\A i \in 1..Len(writes') : ~writes'[i].ok)
              => current_set_pf' = current_set_pf]_vars

\* a control step whose write failed, while the device reads back a set-point
\* other than the commanded one
FailedWriteSeen ==
    /\ Decided
    /\ Len(writes) = 1 /\ ~Written(1).ok
    /\ current_set_pf = last.before
    /\ ~IsNone(last.set_pf) /\ Val(last.set_pf) # current_set_pf

\* C3 Low-power reset: a control step with kw < 5000 issues exactly one
\* write, of -0.8, when the set-point differs from -0.8 by more than 0.001
\* (and the set-point is -0.8 once that write is confirmed), issues none
\* otherwise, and in both cases computes no threshold and takes no step.
LowPowerResets ==
    (Decided /\ ~IsNone(last.kw) /\ Val(last.kw) < 500000) =>
        /\ last.branch = "low"
        /\ IsNone(last.threshold) /\ last.cmp = "none"
        /\ IF Abs(last.before + 800) > 1
           THEN /\ Len(writes) = 1
                /\ Written(1).value = -800
                /\ current_set_pf = IF Written(1).ok THEN -800 ELSE last.before
           ELSE /\ writes = <<>>
                /\ current_set_pf = last.before

\* a confirmed reset from a set-point other than -0.8
LowPowerResetDone ==
    /\ Decided /\ ~IsNone(last.kw) /\ Val(last.kw) < 500000
    /\ last.before # -800
    /\ Len(writes) = 1 /\ Written(1).ok
    /\ current_set_pf = -800

\* C4 Threshold boundary, case 1: a control step on 400 V, 25.0 A, power
\* factor -0.85 has kw = -14722.43, computes the threshold -1.25 A with the
\* +28 formula, finds the current above it, and a confirmed write lowers the
\* set-point by 0.01.
Case1ExampleDecreases ==
    (/\ Decided
     /\ last.voltage = Some(400000)
     /\ last.current = Some(25000)
     /\ last.power_factor = Some(-850)) =>
        /\ last.kw = Some(-1472243)
        /\ last.branch = "case1"
        /\ ~IsNone(last.threshold)
        /\ Abs(Val(last.threshold) + 1250000) <= 1000
        /\ last.cmp = "gt"
        /\ \A i \in 1..Len(writes) :
               Written(i).ok => current_set_pf = last.before - 10

\* C6 No-op on equality: a control step that finds the current equal to the
\* threshold issues no write and leaves the set-point unchanged.
EqualityIsNoOp ==
    (Decided /\ last.cmp = "eq") =>
        /\ writes = <<>>
        /\ current_set_pf = last.before

\* the comparison was reached and found the two equal
EqualitySeen ==
    /\ Decided /\ last.cmp = "eq"
    /\ ~IsNone(last.threshold)
    /\ Val(last.current) * 1000 = Val(last.threshold)
    /\ last.before # -800

\* C10 The transport connection is released on every exit path of run().
ClosedOnEveryExit == pc = "exited" => closed

----------------------------------------------------------------------------
(* SpecBoundary: the control loop over loads on both sides of the two kw   *)
(* boundaries.                                                             *)

BoundaryLoads ==
    {LoadKw4999, LoadKw5000, LoadKw55999, LoadKw56000, LoadHighPower}

InitBoundary == InitOver(BoundaryLoads)

BoundaryTick ==
    /\ current_set_pf < INITIAL_PF + MaxRise * PF_STEP
    /\ \E down \in BOOLEAN, w \in WriteResults, rnd \in Roundings :
          Inputs(down, w, rnd) /\ Tick(down, w, rnd, FALSE, "none")

BoundaryLoadChange ==
    /\ control_count = 0
    /\ \E l \in BoundaryLoads : LoadChange(l)

NextBoundary ==
    DoConnect \/ DoStartupWrite \/ BoundaryTick \/ BoundaryLoadChange \/ Interrupt

SpecBoundary == InitBoundary /\ [][NextBoundary]_vars

\* the part of threshold_current that is neither kw / voltage / sqrt3 nor
\* (voltage - 404) * 2, in millionths
ThresholdOffset ==
    Val(last.threshold)
        - KwOverVoltageOverSqrt3(Val(last.kw), Val(last.voltage))
        - (Val(last.voltage) - 404000) * 2000

\* C5 Formula selection: a control step takes the low-power branch exactly
\* when kw < 5000 (kw = 5000 does not), and otherwise its threshold has the
\* +28 term exactly when kw < 56000 (kw = 56000 has none).
FormulaSwitchesAtBoundaries ==
    Decided =>
        /\ ~IsNone(last.kw)
        /\ (last.branch = "low") <=> (Val(last.kw) < 500000)
        /\ Val(last.kw) >= 500000 =>
              /\ ~IsNone(last.threshold)
              /\ ThresholdOffset = IF Val(last.kw) < 5600000 THEN 28000000 ELSE 0

\* a control step at kw = 56000.00 exactly, without the +28 term
HighFormulaAtBoundary ==
    /\ Decided
    /\ last.kw = Some(5600000)
    /\ ThresholdOffset = 0

\* a control step at kw = 5000.00 exactly, past the low-power branch
Case1AtLowerBoundary ==
    /\ Decided
    /\ last.kw = Some(500000)
    /\ last.branch = "case1"

----------------------------------------------------------------------------
(* SpecGuard: the control loop over loads with a missing or implausible    *)
(* reading, next to loads that pass the guard.                             *)

GuardLoads ==
    {LoadVoltageLow, LoadVoltageZero, LoadVoltageAbsent, LoadCurrentAbsent,
     LoadPfAbsent, LoadVoltage100, LoadBelowThreshold}

InitGuard == InitOver(GuardLoads)

GuardTick ==
    /\ current_set_pf < INITIAL_PF + MaxRise * PF_STEP
    /\ \E down \in BOOLEAN, w \in WriteResults, rnd \in Roundings :
          Inputs(down, w, rnd) /\ Tick(down, w, rnd, FALSE, "none")

GuardLoadChange ==
    /\ control_count = 0
    /\ \E l \in GuardLoads : LoadChange(l)

NextGuard ==
    DoConnect \/ DoStartupWrite \/ GuardTick \/ GuardLoadChange \/ Interrupt

SpecGuard == InitGuard /\ [][NextGuard]_vars

\* the counter reached the control interval in the last iteration
CounterReachedInterval == last.kind \in {"guarded", "decided"}

\* C7 Voltage guard: when the counter reaches the control interval and the
\* voltage is absent, 0 or below 100 V in magnitude, or the current or the
\* power factor is absent, the decision algorithm does not run: no write is
\* issued and the set-point is not changed.
GuardSuppressesDecision ==
    (/\ CounterReachedInterval
     /\ \/ IsNone(last.voltage) \/ IsNone(last.current) \/ IsNone(last.power_factor)
        \/ Val(last.voltage) = 0
        \/ Abs(Val(last.voltage)) < 100000) =>
        /\ last.kind = "guarded"
        /\ writes = <<>>
        /\ current_set_pf = last.before

\* the guard held back a 99.999 V reading with the set-point away from -0.8,
\* where the low-power branch would have written
GuardHeldBack ==
    /\ last.kind = "guarded"
    /\ last.voltage = Some(99999)
    /\ last.before # -800
    /\ control_count = 0

----------------------------------------------------------------------------
(* SpecHistory: the loop over loads that change from one iteration to the  *)
(* next, with every reading handed to update_history kept in pushed, for   *)
(* as long as no channel has been pushed more than MaxPushes times.        *)

MaxPushes == 11

HistoryLoads == {LoadAboveThreshold, LoadVoltageAbsent}

InitHistory == InitOver(HistoryLoads)

HistoryTick ==
    /\ Len(pushed.pf) < MaxPushes
    /\ Len(pushed.current) < MaxPushes
    /\ \E down \in BOOLEAN, w \in WriteResults, rnd \in Roundings :
          Inputs(down, w, rnd) /\ Tick(down, w, rnd, TRUE, "none")

HistoryLoadChange == \E l \in HistoryLoads : LoadChange(l)

NextHistory ==
    DoConnect \/ DoStartupWrite \/ HistoryTick \/ HistoryLoadChange \/ Interrupt

SpecHistory == InitHistory /\ [][NextHistory]_vars

\* the last n elements of s, oldest first
LastN(s, n) == IF Len(s) <= n THEN s ELSE SubSeq(s, Len(s) - n + 1, Len(s))

\* C8 History window: each channel's history has at most 10 entries and is,
\* oldest first, the last min(n, 10) of the n present readings of that
\* channel pushed so far (so the 11th push evicts the first, an absent
\* reading changes nothing, and no channel's push touches another channel).
HistoryIsLastTen ==
    /\ Len(power_factor_history) <= 10
    /\ Len(current_history) <= 10
    /\ Len(voltage_history) <= 10
    /\ Len(set_pf_history) <= 10
    /\ power_factor_history = LastN(pushed.pf, 10)
    /\ current_history = LastN(pushed.current, 10)
    /\ voltage_history = LastN(pushed.voltage, 10)
    /\ set_pf_history = LastN(pushed.set_pf, 10)

\* the 11th power factor evicted a first one that differs from its successor,
\* while the voltage channel had absent readings and lags behind
EleventhPushEvicts ==
    /\ Len(pushed.pf) = 11
    /\ Len(power_factor_history) = 10
    /\ pushed.pf[1] # pushed.pf[2]
    /\ power_factor_history[1] = pushed.pf[2]
    /\ Len(pushed.voltage) < Len(pushed.pf)
    /\ Len(voltage_history) = Len(pushed.voltage)

----------------------------------------------------------------------------
(* SpecLowPower: the loop left to run, never interrupted, over loads with  *)
(* kw < 5000.  The while loop keeps iterating, and iterations whose reads  *)
(* succeed keep coming: weak fairness on those.                            *)

LowPowerLoads == {LoadNegativePf, LoadKw4999}

InitLowPower == InitOver(LowPowerLoads)

LowPowerTick ==
    \E w \in WriteResults, rnd \in Roundings :
        Inputs(FALSE, w, rnd) /\ Tick(FALSE, w, rnd, FALSE, "none")

LowPowerFailedTick == Tick(TRUE, "ok", "eq", FALSE, "none")

LowPowerLoadChange ==
    /\ control_count = 0
    /\ \E l \in LowPowerLoads : LoadChange(l)

NextLowPower ==
    \/ DoConnect
    \/ DoStartupWrite
    \/ LowPowerTick
    \/ LowPowerFailedTick
    \/ LowPowerLoadChange

SpecLowPower ==
    /\ InitLowPower
    /\ [][NextLowPower]_vars
    /\ WF_vars(DoConnect)
    /\ WF_vars(DoStartupWrite)
    /\ WF_vars(LowPowerTick)

\* C9 Startup write failure is retried: once the loop is entered after a
\* failed startup write, a later control step issues a write of the
\* set-point.
StartupWriteRetried ==
    (pc = "loop" /\ startup = "failed") ~> (Decided /\ writes # <<>>)

----------------------------------------------------------------------------
(* SpecErrors: the service with every failure it handles: connect() that   *)
(* fails, reads and writes that fail, readings that are absent, exceptions *)
(* raised inside an iteration, and the interrupt.                          *)

ErrorLoads == {LoadBelowThreshold, LoadAboveThreshold, LoadVoltageAbsent}

InitErrors == InitOver(ErrorLoads)

ErrorTick ==
    /\ current_set_pf < INITIAL_PF + MaxRise * PF_STEP
    /\ \E down \in BOOLEAN, w \in WriteResults, rnd \in Roundings, exc \in Exceptions :
          /\ Inputs(down, w, rnd) /\ Raised(down, w, rnd, exc)
          /\ Tick(down, w, rnd, FALSE, exc)

ErrorLoadChange ==
    /\ control_count = 0
    /\ \E l \in ErrorLoads : LoadChange(l)

NextErrors ==
    DoConnect \/ DoStartupWrite \/ ErrorTick \/ ErrorLoadChange \/ Interrupt

SpecErrors == InitErrors /\ [][NextErrors]_vars

\* C11 Connection failure is fatal: once connect() has returned failure or
\* raised, run() has ended, and no register has been read or written (the
\* startup write included), no history holds a value and the counter is 0.
ConnectFailureIsFatal ==
    connect_result \in {"refused", "raises"} =>
        /\ pc = "exited"
        /\ last.kind = "none" /\ last.reads = 0
        /\ writes = <<>> /\ startup = "pending"
        /\ relay.reg \in FactorySetPf
        /\ power_factor_history = <<>> /\ current_history = <<>>
        /\ voltage_history = <<>> /\ set_pf_history = <<>>
        /\ control_count = 0

\* connect() raised and run() has returned
ConnectRaised ==
    /\ connect_result = "raises"
    /\ pc = "exited"
    /\ ~interrupted

\* C12 Exit status: the process has exited with a non-zero status when
\* connect() failed, and with status 0 after an interrupt inside the loop.
ExitStatusTellsConnectFailure ==
    pc = "exited" =>
        /\ connect_result \in {"refused", "raises"} =>
               (exit_status # None /\ Val(exit_status) # 0)
        /\ (interrupted /\ startup # "pending") => exit_status = Some(0)

\* the last step was an iteration of the loop
Ticked == last.kind # "none"

\* the iteration found at least one of the three measurements present
Sampled ==
    ~IsNone(last.power_factor) \/ ~IsNone(last.current) \/ ~IsNone(last.voltage)

StatusCount == Cardinality({i \in 1..Len(last.printed) : last.printed[i].line = "status"})

\* C13 as stated: every iteration prints exactly one status line.
EveryTickEmitsStatusLine == Ticked => StatusCount = 1

\* C13 amended: an iteration with at least one of power factor, current and
\* voltage present, whose status line is formatted and printed without
\* raising, prints exactly one status line, showing the four readings (N/A
\* for an absent one) and the kw derived from them (N/A unless voltage,
\* current and power factor are all present), whatever the control step did
\* (not due, held back by the guard, write failed, exception caught); an
\* iteration with all three absent prints no status line, only the
\* read-failed warning.
SampledTickEmitsStatusLine ==
    Ticked =>
        /\ (Sampled /\ last.exc # "status") =>
               /\ StatusCount = 1
               /\ LET l == last.printed[Len(last.printed)]
                  IN  /\ l.line = "status"
                      /\ l.power_factor = last.power_factor
                      /\ l.current = last.current
                      /\ l.voltage = last.voltage
                      /\ l.set_pf = last.set_pf
                      /\ IsNone(KwShown(l)) <=>
                             \/ IsNone(last.power_factor)
                             \/ IsNone(last.current)
                             \/ IsNone(last.voltage)
               /\ last.kind = "aborted" <=> last.printed[1].line = "control_error"
        /\ ~Sampled =>
               /\ StatusCount = 0
               /\ last.exc # "status" => last.printed = <<ReadFailedWarning>>

\* the status line follows the error line of a control step that raised
StatusAfterControlError ==
    /\ last.kind = "aborted"
    /\ Len(last.printed) = 2
    /\ last.printed[1].line = "control_error"
    /\ last.printed[2].line = "status"
    /\ ~IsNone(last.printed[2].voltage)
    /\ control_count = 0

\* a status line with two channels unavailable, in an iteration whose control
\* step the guard held back
StatusWithChannelUnavailable ==
    /\ last.kind = "guarded"
    /\ StatusCount = 1
    /\ IsNone(last.printed[1].voltage) /\ IsNone(last.printed[1].set_pf)
    /\ ~IsNone(last.printed[1].current)

\* the step is an iteration of the loop (a stuttering step apart)
TickStep == pc = "loop" /\ pc' = "loop" /\ relay'.load = relay.load

StepIsOneHundredth ==
    (Decided /\ last.cmp \in {"lt", "gt"}) =>
        LET up       == last.before + 10
            down     == IF last.before - 10 < -900 THEN -900 ELSE last.before - 10
            proposal == IF last.cmp = "lt" THEN up ELSE down
        IN  /\ ~IsNone(last.kw) /\ Val(last.kw) >= 500000
            /\ ~IsNone(last.threshold)
            /\ last.cmp = "lt" => Val(last.current) * 1000 <= Val(last.threshold)
            /\ last.cmp = "gt" => Val(last.current) * 1000 >= Val(last.threshold)
            /\ Len(writes) <= 1
            /\ (proposal # last.before) =>
                   (Len(writes) = 1 /\ Written(1).value = proposal)
            /\ (proposal = last.before) => writes = <<>>
            /\ current_set_pf = IF writes # <<>> /\ Written(1).ok
                                THEN proposal ELSE last.before
            /\ Abs(current_set_pf - last.before) <= 10

\* a confirmed decrease of one step, away from the floor
DecreaseConfirmed ==
    /\ Decided /\ last.cmp = "gt"
    /\ Val(last.current) * 1000 > Val(last.threshold)
    /\ last.before = -800
    /\ Len(writes) = 1 /\ Written(1).ok /\ Written(1).value = -810
    /\ current_set_pf = -810

\* a confirmed increase of one step
IncreaseConfirmed ==
    /\ Decided /\ last.cmp = "lt"
    /\ Val(last.current) * 1000 < Val(last.threshold)
    /\ Len(writes) = 1 /\ Written(1).ok
    /\ current_set_pf = last.before + 10

\* C18 Decision periodicity: control_power_factor is called only in an
\* iteration that takes the counter from 5 to 6 (and resets it); an
\* iteration with power factor, current and voltage all absent leaves the
\* counter alone; every other iteration counts, and the sixth resets the
\* counter to 0 whether or not the guard lets the control step run.
DecisionEverySixthSample ==
    [][TickStep =>
        LET sampled == \/ ~IsNone(last'.power_factor)
                       \/ ~IsNone(last'.current)
                       \/ ~IsNone(last'.voltage)
        IN  /\ last'.kind \in {"decided", "aborted"} =>
                   (sampled /\ control_count = 5 /\ control_count' = 0)
            /\ ~sampled => control_count' = control_count
            /\ (sampled /\ control_count < 5) =>
                   (control_count' = control_count + 1 /\ last'.kind = "sample")
            /\ (sampled /\ control_count = 5) =>
                   (control_count' = 0 /\ last'.kind \in {"decided", "aborted", "guarded"})]_vars

\* the sixth sample reset the counter although the guard held the control
\* step back (voltage absent)
SuppressedDecisionResetCounter ==
    /\ last.kind = "guarded"
    /\ IsNone(last.voltage) /\ ~IsNone(last.current)
    /\ control_count = 0
    /\ Len(current_history) >= 6

\* C19 Tick counter range: the counter is 0 before the loop and after every
\* iteration it is an integer from 0 to 5.
CounterInRange ==
    /\ control_count \in 0..5
    /\ pc \in {"start", "startup"} => control_count = 0

\* the counter is back at 0 after an iteration whose control step raised
CounterResetAfterError ==
    /\ last.kind = "aborted"
    /\ control_count = 0
    /\ pc = "loop"

\* C20 Failed-read frame: an iteration that finds power factor, current and
\* voltage all absent changes no history (the set-point history included,
\* whether or not the set-point was read), leaves the counter and the
\* set-point alone, does not run the control step, issues no write and, bar
\* an exception while printing, prints the read-failed warning and nothing
\* else.
FailedReadChangesNothing ==
    [][(/\ TickStep
        /\ IsNone(last'.power_factor) /\ IsNone(last'.current) /\ IsNone(last'.voltage)) =>
            /\ UNCHANGED <<power_factor_history, current_history, voltage_history,
                           set_pf_history, control_count, current_set_pf, relay>>
            /\ writes' = <<>>
            /\ last'.kind = "failed"
            /\ last'.branch = "none"
            /\ last'.exc = "none" => last'.printed = <<ReadFailedWarning>>]_vars

\* the three measurement reads failed while the set-point read succeeded,
\* in the middle of a control period
FailedReadWithSetPointRead ==
    /\ last.kind = "failed"
    /\ ~IsNone(last.set_pf)
    /\ control_count = 3
    /\ Len(set_pf_history) = 3
    /\ last.printed = <<ReadFailedWarning>>

----------------------------------------------------------------------------
(* The register codec on its own: a float goes through the write path into *)
(* two registers (write_float_register, or encode_float_cdab of the debug  *)
(* tool), and two registers go through the read path (read_float_register, *)
(* or decode_float_cdab).  The service itself stays as constructed.        *)

\* other decimal literals, in thousandths: small ones, the last 3-decimal
\* values single precision still tells apart, and larger ones
OtherDecimals ==
    {0, 1, 0 - 1, 5, 62, 188, 999, 1001, 0 - 1001, 25000, 230000, 400000,
     425416, 4096001, 8192001, 16383999, 16384000, 16384001, 0 - 16384001,
     20000001, 0 - 20000001, 100000001, 2147483000}

\* floats given as m * 2^e: single precision values (ties of round(x, 3),
\* subnormals, the largest one below 1e10), doubles between two single
\* precision values, 1e10 and beyond, and 2^128, which does not pack
BinaryFloats ==
    {BinaryFloat(FALSE, 1, 0 - 4), BinaryFloat(TRUE, 1, 0 - 4),
     BinaryFloat(FALSE, 3, 0 - 4), BinaryFloat(FALSE, 1, 0 - 10),
     BinaryFloat(FALSE, 1, 0 - 11), BinaryFloat(FALSE, 1, 0 - 149),
     BinaryFloat(TRUE, 1, 0 - 149), BinaryFloat(FALSE, 8388607, 0 - 149),
     BinaryFloat(FALSE, 1, 0 - 150), BinaryFloat(FALSE, 3, 0 - 150),
     BinaryFloat(FALSE, 16777215, 0), BinaryFloat(FALSE, 16777215, 9),
     BinaryFloat(FALSE, 9765624, 10), BinaryFloat(TRUE, 9765624, 10),
     BinaryFloat(FALSE, 16777217, 0), BinaryFloat(TRUE, 16777219, 0),
     BinaryFloat(FALSE, 33554433, 0 - 30), BinaryFloat(FALSE, 39062499, 8),
     BinaryFloat(FALSE, 39062497, 8), BinaryFloat(FALSE, 9765625, 10),
     BinaryFloat(TRUE, 9765625, 10), BinaryFloat(FALSE, 1, 40),
     BinaryFloat(FALSE, 16777215, 104), BinaryFloat(FALSE, 33554431, 103),
     BinaryFloat(FALSE, 1, 128)}

CodecFloats ==
    {DecimalFloat(n) : n \in SetPointDecimals \cup OtherDecimals} \cup BinaryFloats

\* register pairs a device can hold, [first word, second word]: 0.5, 230.0,
\* -0.8, zero, minus zero, a subnormal, the largest value below 1e10, 1e10,
\* -1e10, 3e12, the infinities, three NaNs, the largest finite value
DevicePairs ==
    {<<0, 16128>>, <<0, 17254>>, <<52429, 48972>>, <<0, 0>>, <<0, 32768>>,
     <<1, 0>>, <<65535, 127>>, <<760, 20501>>, <<761, 20501>>, <<761, 53269>>,
     <<40828, 21550>>, <<0, 32640>>, <<0, 65408>>, <<0, 32704>>, <<1, 32640>>,
     <<65535, 65535>>, <<65535, 32639>>, <<16128, 0>>, <<20501, 761>>}

NoFloat == BinaryFloat(FALSE, 0, 0)

\* codec.at: "float" (x is to be encoded), "unwritten" (struct.pack raised),
\* "registers" (the pair is in the device), "reading" (read_float_register
\* returned), "value" (decode_float_cdab returned).  codec.by: who put the
\* pair there, "service", "debug" or "device".
Codec(at, by, x, registers, reading, value) ==
    [at |-> at, by |-> by, x |-> x, registers |-> registers,
     reading |-> reading, value |-> value]

InitRoundTrip ==
    /\ InitService
    /\ relay = [load |-> LoadNegativePf, reg |-> 950]
    /\ \/ \E x \in CodecFloats :
              codec = Codec("float", "none", x, <<>>, None, None)
       \/ \E registers \in DevicePairs :
              codec = Codec("registers", "device", NoFloat, registers, None, None)

ServiceUntouched ==
    UNCHANGED <<pc, connected, closed, startup, current_set_pf, control_count,
                power_factor_history, current_history, voltage_history,
                set_pf_history, relay, writes, last, pushed, connect_result,
                interrupted, exit_status>>

\* write_float_register up to the transport call
Encode ==
    /\ codec.at = "float"
    /\ LET p == payload(codec.x)
       IN  codec' = IF IsNone(p)
                    THEN [codec EXCEPT !.at = "unwritten", !.by = "service"]
                    ELSE [codec EXCEPT !.at = "registers", !.by = "service",
                                       !.registers = Val(p)]
    /\ ServiceUntouched

\* debug_modbus.py: encode_float_cdab (which raises where struct.pack does)
DebugEncode ==
    /\ codec.at = "float"
    /\ Narrow(codec.x).kind # "OverflowError"
    /\ codec' = [codec EXCEPT !.at = "registers", !.by = "debug",
                              !.registers = encode_float_cdab(codec.x)]
    /\ ServiceUntouched

\* read_float_register once the transport has returned the pair
Decode ==
    /\ codec.at = "registers"
    /\ codec' = [codec EXCEPT !.at = "reading",
                              !.reading = read_float_register(codec.registers, "ok")]
    /\ ServiceUntouched

\* debug_modbus.py: decode_float_cdab
DebugDecode ==
    /\ codec.at = "registers"
    /\ codec' = [codec EXCEPT !.at = "value",
                              !.value = Some(decode_float_cdab(codec.registers))]
    /\ ServiceUntouched

NextRoundTrip == Encode \/ DebugEncode \/ Decode \/ DebugDecode

SpecRoundTrip == InitRoundTrip /\ [][NextRoundTrip]_vars

\* m without its trailing zero bits, and how many there were
OddPart[m \in Nat] == IF m = 0 \/ m % 2 = 1 THEN m ELSE OddPart[m \div 2]
TwoPart[m \in Nat] == IF m = 0 \/ m % 2 = 1 THEN 0 ELSE 1 + TwoPart[m \div 2]

\* m * 2^e is a single precision value: at most 24 significant bits, the
\* lowest one no lower than 2^-149, below 2^128
SingleBinary(m, e) ==
    \/ m = 0
    \/ /\ BitLen[OddPart[m]] <= 24
       /\ e + TwoPart[m] >= 0 - 149
       /\ e + BitLen[m] <= 128

\* the float x is a single precision value.  n / 1000 is a binary fraction
\* only when 125 divides n, and then it is (n / 125) / 8.
IsSinglePrecision(x) ==
    IF x.form = "decimal"
    THEN x.m % 125 = 0 /\ SingleBinary(x.m \div 125, 0 - 3)
    ELSE SingleBinary(x.m, x.e)

\* |x| < 1e10, for a float x or a single precision value
Below1e10(x) ==
    \/ x.m = 0
    \/ x.e <= 0
    \/ x.e <= 34 /\ BigLess(BigTimesPow2[BigOfNat[x.m], x.e], Big1e10)

\* the largest magnitude, in thousandths, up to which single precision tells
\* all 3-decimal values apart (16384.001 packs to 16384.001953125)
ExactDecimals == 16384000

Encoded == codec.at \in {"registers", "reading", "value"} /\ codec.by \in {"service", "debug"}

\* C15 as stated: for every finite x with |x| < 1e10, decoding the register
\* pair the write path produced yields round(x, 3)
RoundTripYieldsRound3 ==
    (codec.at = "reading" /\ codec.by = "service" /\ Below1e10(codec.x))
    => codec.reading = Some(round3(codec.x))

\* C15: for every finite x whose nearest single precision value f has
\* |f| < 1e10, decoding the register pair the write path produced yields
\* round(f, 3); that is round(x, 3) when x is itself a single precision value
\* and when x is a 3-decimal value with |x| <= 16384 (every set-point is).
\* The pair emitted by encode is [low word, high word] of the pattern of f, the
\* read path reassembles the pattern as (second word, first word), and the
\* debug tool's CDAB encode and decode follow the same convention.
RoundTripOfSinglePrecision ==
    LET x == codec.x
        f == Narrow(x)
        w == Words(f)
    IN  /\ Encoded =>
              /\ codec.registers = <<w.low_word, w.high_word>>
              /\ raw_bytes(codec.registers) = <<w.high_word, w.low_word>>
        /\ (Encoded /\ codec.at = "reading" /\ Below1e10(f)) =>
              /\ codec.reading = Some(Rounded(f.neg, f.m, f.e))
              /\ IsSinglePrecision(x) => codec.reading = Some(round3(x))
              /\ (x.form = "decimal" /\ x.m <= ExactDecimals)
                     => codec.reading = Some(round3(x))
        /\ (Encoded /\ codec.at = "value") => codec.value = Some(f)
        /\ codec.at = "value" =>
              /\ codec.value = Some(float_of_registers(codec.registers))
              /\ Val(codec.value).kind # "nan" =>
                     raw_bytes(codec.registers)
                         = <<Words(Val(codec.value)).high_word,
                             Words(Val(codec.value)).low_word>>

\* the startup set-point -0.8 has gone through the write path and the read
\* path and has come back as -0.8
SetPointRoundTrip ==
    /\ codec.at = "reading"
    /\ codec.by = "service"
    /\ codec.x = DecimalFloat(INITIAL_PF)
    /\ codec.registers = <<52429, 48972>>
    /\ codec.reading = Some(OfThousandths(INITIAL_PF))

\* a single precision value with a tie in the third decimal: 0.1875 comes
\* back as 0.188
TieRoundTrip ==
    /\ codec.at = "reading"
    /\ codec.x = BinaryFloat(FALSE, 3, 0 - 4)
    /\ codec.reading = Some(OfThousandths(188))

\* 16384.001 comes back as 16384.002
PrecisionLost ==
    /\ codec.at = "reading"
    /\ codec.x = DecimalFloat(16384001)
    /\ codec.reading = Some(OfThousandths(16384002))

----------------------------------------------------------------------------
(* The loop over a device given by what its registers hold: codec is the   *)
(* register pair of each measured channel and what the transport does on   *)
(* a read of it, and relay.load is what read_float_register makes of them. *)

Raw(registers, t) == [registers |-> registers, t |-> t]

Device(pf, current, voltage, set_pf_t) ==
    [at |-> "device", pf |-> pf, current |-> current, voltage |-> voltage,
     set_pf_t |-> set_pf_t]

\* read_power_factor, read_current, read_voltage: read_float_register, in
\* thousandths
RawReading(raw) ==
    LET r == read_float_register(raw.registers, raw.t)
    IN  IF IsNone(r) THEN None ELSE Some(Thousandths(Val(r)))

LoadOf(c) ==
    Load(RawReading(c.pf), RawReading(c.current), RawReading(c.voltage),
         c.set_pf_t = "ok")

\* pairs that decode: 0.5, 0.7, 1.5 A, 2.5 A, 230 V, 231.5 V (at most 0.71 kW)
\* pairs that do not: NaN, +inf, -inf, 1e10, -1e10, 3e12
\* transport faults: an error result over a pair that would decode, an exception
Devices ==
    {Device(Raw(<<0, 16128>>, "ok"), Raw(<<0, 16320>>, "ok"),
            Raw(<<0, 17254>>, "ok"), "ok"),
     Device(Raw(<<0, 32704>>, "ok"), Raw(<<0, 16416>>, "ok"),
            Raw(<<32768, 17255>>, "ok"), "ok"),
     Device(Raw(<<13107, 16179>>, "ok"), Raw(<<0, 32640>>, "ok"),
            Raw(<<0, 17254>>, "ok"), "ok"),
     Device(Raw(<<0, 16128>>, "ok"), Raw(<<0, 16320>>, "ok"),
            Raw(<<761, 20501>>, "ok"), "error"),
     Device(Raw(<<0, 16128>>, "error"), Raw(<<0, 16320>>, "ok"),
            Raw(<<0, 65408>>, "ok"), "ok"),
     Device(Raw(<<0, 16128>>, "ok"), Raw(<<0, 16320>>, "exception"),
            Raw(<<40828, 21550>>, "ok"), "ok"),
     Device(Raw(<<0, 32704>>, "ok"), Raw(<<761, 53269>>, "ok"),
            Raw(<<0, 17254>>, "error"), "ok")}

InitCodec ==
    /\ InitService
    /\ codec \in Devices
    /\ relay = [load |-> LoadOf(codec), reg |-> 950]

CodecTick == Tick(FALSE, "ok", "eq", FALSE, "none")

\* The device's registers change.
DeviceChange ==
    /\ pc = "loop"
    /\ control_count = 0
    /\ \E c \in Devices :
          /\ c # codec
          /\ codec' = c
          /\ relay' = [relay EXCEPT !.load = LoadOf(c)]
    /\ UNCHANGED <<pc, connected, closed, startup, current_set_pf, control_count,
                   power_factor_history, current_history, voltage_history,
                   set_pf_history, writes, last, pushed, connect_result,
                   interrupted, exit_status>>

NextCodec == DoConnect \/ DoStartupWrite \/ CodecTick \/ DeviceChange

SpecCodec == InitCodec /\ [][NextCodec]_vars

\* the pair is an infinity or a NaN (exponent bits all ones), or its
\* magnitude, read as a 31-bit number, is at least that of 1e10, 0x501502F9
NonFiniteOrHuge(registers) ==
    LET magnitude_high == registers[2] % 32768
    IN  \/ magnitude_high \div 128 = 255
        \/ magnitude_high > 20501
        \/ magnitude_high = 20501 /\ registers[1] >= 761

Rejects(raw) == raw.t # "ok" \/ NonFiniteOrHuge(raw.registers)

\* a rejected channel reads absent and its history stays; any other channel
\* reads present and its history takes the reading
ChannelRead(raw, reading, h, h2) ==
    IF Rejects(raw)
    THEN IsNone(reading) /\ h2 = h
    ELSE ~IsNone(reading) /\ h2 = Append10(h, Val(reading))

\* C16 Codec rejection: in every iteration of the loop all four channels are
\* read; a measured channel whose register pair decodes to a non-finite float
\* or to a magnitude >= 1e10, or whose read meets a transport error or
\* exception, reads absent and its history is not advanced, while every other
\* measured channel of the same iteration reads present and is recorded; the
\* same holds for the set-point channel on a transport error, which is
\* recorded when present in an iteration with a measured channel present.
CodecRejection ==
    [][(TickStep /\ codec' = codec) =>
          /\ last'.reads = 4
          /\ ChannelRead(codec.pf, last'.power_factor,
                         power_factor_history, power_factor_history')
          /\ ChannelRead(codec.current, last'.current,
                         current_history, current_history')
          /\ ChannelRead(codec.voltage, last'.voltage,
                         voltage_history, voltage_history')
          /\ IF codec.set_pf_t # "ok"
             THEN IsNone(last'.set_pf) /\ set_pf_history' = set_pf_history
             ELSE /\ last'.set_pf = Some(relay.reg)
                  /\ last'.kind # "failed" =>
                         set_pf_history' = Append10(set_pf_history, relay.reg)]_vars

\* an iteration has read a voltage pair holding exactly 1e10 as absent, has
\* recorded power factor and current, and has left the voltage history behind
RejectedChannelSkipped ==
    /\ pc = "loop"
    /\ last.kind = "sample"
    /\ codec.voltage = Raw(<<761, 20501>>, "ok")
    /\ IsNone(last.voltage)
    /\ last.power_factor = Some(500) /\ last.current = Some(1500)
    /\ power_factor_history # <<>>
    /\ power_factor_history[Len(power_factor_history)] = 500
    /\ Len(voltage_history) < Len(current_history)

\* an iteration has met an error result on the power factor read and has
\* recorded the current
TransportErrorSkipped ==
    /\ pc = "loop"
    /\ last.kind = "sample"
    /\ codec.pf.t = "error"
    /\ IsNone(last.power_factor)
    /\ last.current = Some(1500)
    /\ Len(power_factor_history) < Len(current_history)

----------------------------------------------------------------------------
\* C21 Decrease at the floor: a control step that finds the set-point at
\* -0.9 and the current above the threshold proposes -0.91, clamps it to
\* -0.9, which is the set-point itself, issues no write and leaves the
\* set-point at -0.9.
DecreaseAtFloorWritesNothing ==
    (Decided /\ last.cmp = "gt" /\ last.before = MIN_PF) =>
        /\ Val(last.current) * 1000 >= Val(last.threshold)
        /\ writes = <<>>
        /\ current_set_pf = MIN_PF

\* a control step has found the set-point at -0.9, the load at 380 V, 30 A
\* and 17770.84 kW, the current above the 7 A threshold, and has written
\* nothing
DecreaseAtFloorDecided ==
    /\ Decided /\ last.cmp = "gt"
    /\ last.branch = "case1"
    /\ Val(last.current) * 1000 > Val(last.threshold)
    /\ last.before = MIN_PF
    /\ writes = <<>>
    /\ current_set_pf = MIN_PF

----------------------------------------------------------------------------
(* The loop over loads whose power factor is never positive, with at least *)
(* 100 V and a current that is not negative.                               *)

\* 400 V, 25 A, pf 0: kw = 0
LoadZeroPf == Load(Some(0), Some(25000), Some(400000), TRUE)
\* 410 V, 90 A, pf -1: kw = -63911.52
LoadMinusOnePf == Load(Some(-1000), Some(90000), Some(410000), TRUE)
\* 400 V, 0 A, pf -0.85: kw = 0
LoadNoCurrent == Load(Some(-850), Some(0), Some(400000), TRUE)
\* 100 V, 400 A, pf -0.001: kw = -69.28
LoadNegativePf100V == Load(Some(-1), Some(400000), Some(100000), TRUE)

NegativePfLoads ==
    {LoadNegativePf, LoadZeroPf, LoadMinusOnePf, LoadNoCurrent, LoadNegativePf100V}

InitNegativePf == InitOver(NegativePfLoads)

NegativePfTick ==
    \E down \in BOOLEAN, w \in WriteResults, rnd \in Roundings :
        Inputs(down, w, rnd) /\ Tick(down, w, rnd, FALSE, "none")

NegativePfLoadChange ==
    /\ control_count = 0
    /\ \E l \in NegativePfLoads : LoadChange(l)

NextNegativePf ==
    DoConnect \/ DoStartupWrite \/ NegativePfTick \/ NegativePfLoadChange \/ Interrupt

SpecNegativePf == InitNegativePf /\ [][NextNegativePf]_vars

\* C22 Negative power factor pins the set-point: with a power factor <= 0,
\* a voltage >= 100 V and a current >= 0 on every control step, every control
\* step finds kw <= 0, takes the branch of kw < 5000, computes no threshold,
\* compares nothing and writes nothing; the only write there ever is is the
\* startup write of -0.8, and the commanded set-point is -0.8 in every state.
NegativePfPinsSetPoint ==
    /\ current_set_pf = INITIAL_PF
    /\ \A i \in 1..Len(writes) : Written(i).value = INITIAL_PF
    /\ pc = "loop" => writes = <<>> \/ last.kind = "none"
    /\ Decided =>
          /\ Val(last.power_factor) <= 0
          /\ Val(last.voltage) >= 100000
          /\ Val(last.current) >= 0
          /\ last.branch = "low"
          /\ Val(last.kw) <= 0
          /\ IsNone(last.threshold)
          /\ last.cmp = "none"
          /\ writes = <<>>

\* a control step has run on 400 V, 25 A and power factor -0.85, has found
\* kw = -14722.43 and has left the set-point at -0.8
NegativePfDecided ==
    /\ Decided
    /\ last.power_factor = Some(-850)
    /\ last.kw = Some(-1472243)
    /\ last.branch = "low"
    /\ writes = <<>>
    /\ current_set_pf = INITIAL_PF

----------------------------------------------------------------------------
(* The loop over one load whose current stays below the threshold (400 V,  *)
(* 25 A, pf 0.85: kw = 14722.43, threshold 41.25 A), so that every control *)
(* step proposes an increase.  The set-point is explored up to MaxAbove    *)
(* steps above 1.0.                                                        *)

MaxAbove == 1

InitRise == InitOver({LoadBelowThreshold})

RiseTick ==
    /\ current_set_pf < 1000 + MaxAbove * PF_STEP
    /\ \E down \in BOOLEAN, w \in WriteResults, rnd \in Roundings :
          Inputs(down, w, rnd) /\ Tick(down, w, rnd, FALSE, "none")

NextRise == DoConnect \/ DoStartupWrite \/ RiseTick \/ Interrupt

SpecRise == InitRise /\ [][NextRise]_vars

\* C23 Upper bound of the set-point: in every reachable state the commanded
\* set-point and every value written to the set-point register are within
\* [-0.9, 1.0].
SetPointWithinPfRange ==
    /\ MIN_PF <= current_set_pf /\ current_set_pf <= 1000
    /\ \A i \in 1..Len(writes) :
          MIN_PF <= Written(i).value /\ Written(i).value <= 1000

====
